---- MODULE Spec2Model ----
(***************************************************************************)
(* Verification model of the zaedamall_autopost tools:                     *)
(*   tools/auto_write.py, tools/mall_auto_write.py  (uploaders)            *)
(*   tools/run_post.py                               (orchestrator)        *)
(*   tools/create_contents.py, tools/make_sample_data.py (generators)      *)
(*                                                                         *)
(* Text is modelled as a sequence of one-character strings so that         *)
(* str.strip() and str.upper() are computed, not assumed.                  *)
(***************************************************************************)
EXTENDS Integers, Sequences, FiniteSets, TLC

VARIABLES
    file,     \* docs/data.xlsx: [exists, rows]; rows[k] is sheet row k+1
    sample,   \* TRUE when tools/docs/data.xlsx (make_sample_data's XLSX) exists
    u,        \* the uploader process (auto_write.main / mall_auto_write.main)
    o,        \* the orchestrator process (run_post.main)
    runs,     \* number of top-level invocations started so far
    clock,    \* wall clock, in seconds
    doneRows, \* history: the rows mark_done has been applied to
    lq,       \* load_next_row applied to an arbitrary sheet
    lg,       \* one call of ensure_login
    fs,       \* one selector-candidate lookup on an arbitrary page
    li,       \* is_logged_in applied to an arbitrary page
    sd,       \* one call of setup_driver
    nv,       \* one call of ensure_write_page
    fb,       \* one body-filling pass (fill_body, auto_write.main, debug_iframes)
    tg,       \* one title generation
    bd,       \* one call of generate_post, for its body
    cc        \* two uploader processes running at once on one queue file

\* the variables of the sub-models added after the first ones
aux == <<li, sd, nv, fb, tg, bd, cc>>

\* the queue, the processes and the first sub-models
basis == <<file, sample, u, o, runs, clock, doneRows, lq, lg, fs>>

vars == <<file, sample, u, o, runs, clock, doneRows, lq, lg, fs, li, sd, nv, fb, tg, bd,
          cc>>

(***************************************************************************)
(* Bounds                                                                  *)
(***************************************************************************)
MaxRows == 2        \* data rows of the queue file at the start
MaxRuns == 2        \* top-level invocations per behaviour
MaxLoadRows == 2    \* data rows of the sheets given to load_next_row alone
MaxPage == 3        \* elements of a page given to the selector lookups

(***************************************************************************)
(* Text                                                                    *)
(***************************************************************************)
Whitespace == {" ", "\t", "\n"}

\* str.upper() on one character (letters outside a-z are unchanged)
UpperChar(c) ==
    CASE c = "d" -> "D" [] c = "o" -> "O" [] c = "n" -> "N" [] c = "e" -> "E"
      [] c = "s" -> "S" [] c = "k" -> "K" [] c = "i" -> "I" [] c = "p" -> "P"
      [] c = "t" -> "T" [] c = "b" -> "B" [] c = "u" -> "U" [] c = "l" -> "L"
      [] c = "h" -> "H"
      [] OTHER -> c

upper(s) == [k \in 1..Len(s) |-> UpperChar(s[k])]

RECURSIVE lstrip(_)
lstrip(s) ==
    IF s = <<>> THEN <<>>
    ELSE IF Head(s) \in Whitespace THEN lstrip(Tail(s)) ELSE s

RECURSIVE rstrip(_)
rstrip(s) ==
    IF s = <<>> THEN <<>>
    ELSE IF s[Len(s)] \in Whitespace THEN rstrip(SubSeq(s, 1, Len(s) - 1)) ELSE s

strip(s) == rstrip(lstrip(s))

sEmpty == <<>>
sDONE == <<"D", "O", "N", "E">>
sPUBLISHED == <<"P", "U", "B", "L", "I", "S", "H", "E", "D">>
sSKIP == <<"S", "K", "I", "P">>

\* the tuple ("DONE", "PUBLISHED", "SKIP") of load_next_row
TerminalStatuses == {sDONE, sPUBLISHED, sSKIP}

(***************************************************************************)
(* Excel helpers (auto_write.py 75-91, mall_auto_write.py 51-68)           *)
(* A cell holding None is read as "" by `value or ""`; both are the empty  *)
(* sequence here.  Row 1 is the header, so ws.max_row = Len(rows) + 1.     *)
(***************************************************************************)
max_row(rows) == Len(rows) + 1

Cell(rows, i) == rows[i - 1]

NoRow == 0   \* the None returned in place of a row number

\* a plausible slip: DONE is left out of the tuple of terminal statuses
RowQualifies_nodone(rows, i) ==
    LET title == strip(Cell(rows, i).title)
        body == strip(Cell(rows, i).body)
        status == upper(strip(Cell(rows, i).status))
    IN  title # <<>> /\ body # <<>> /\ status \notin {sPUBLISHED, sSKIP}

RowQualifies(rows, i) ==
    LET title == strip(Cell(rows, i).title)
        body == strip(Cell(rows, i).body)
        status == upper(strip(Cell(rows, i).status))
    IN  title # <<>> /\ body # <<>> /\ status \notin TerminalStatuses

\* a plausible slip: the scan keeps going and returns the last match
ScanRows_last(rows, i) ==
    LET hits == {j \in i..max_row(rows) : RowQualifies(rows, j)}
    IN  IF hits = {} THEN [row |-> NoRow, title |-> <<>>, body |-> <<>>]
        ELSE LET j == CHOOSE m \in hits : \A k \in hits : k <= m
             IN  [row |-> j, title |-> strip(Cell(rows, j).title),
                  body |-> strip(Cell(rows, j).body)]

RECURSIVE ScanRows(_, _)
ScanRows(rows, i) ==
    IF i > max_row(rows) THEN [row |-> NoRow, title |-> <<>>, body |-> <<>>]
    ELSE IF RowQualifies(rows, i)
         THEN [row |-> i, title |-> strip(Cell(rows, i).title),
               body |-> strip(Cell(rows, i).body)]
         ELSE ScanRows(rows, i + 1)

FirstDataRow == 2

\* a plausible slip: the scan forgets to upper-case the status
load_next_row_noupper(rows) ==
    LET q(i) == strip(Cell(rows, i).title) # <<>> /\ strip(Cell(rows, i).body) # <<>>
                /\ strip(Cell(rows, i).status) \notin TerminalStatuses
        hits == {i \in FirstDataRow..max_row(rows) : q(i)}
    IN  IF hits = {} THEN [row |-> NoRow, title |-> <<>>, body |-> <<>>]
        ELSE LET i == CHOOSE j \in hits : \A k \in hits : j <= k
             IN [row |-> i, title |-> strip(Cell(rows, i).title),
                 body |-> strip(Cell(rows, i).body)]

load_next_row(rows) == ScanRows(rows, FirstDataRow)

\* datetime.now().strftime("%Y-%m-%d %H:%M"): the minute the instant falls in
SecondsPerMinute == 60

\* a plausible slip: the format stops at the hour, "%Y-%m-%d %H"
strftime_hour(now) ==
    (now \div (SecondsPerMinute * SecondsPerMinute)) * SecondsPerMinute

strftime(now) == now \div SecondsPerMinute

\* a plausible slip: mark_done writes the row above the selected one
mark_done_offbyone(wb, row, now) ==
    IF row - 2 >= 1
    THEN [wb EXCEPT ![row - 2].status = sDONE, ![row - 2].updated = strftime(now)]
    ELSE [wb EXCEPT ![row - 1].updated = strftime(now)]

\* the workbook that mark_done saves
mark_done(wb, row, now) ==
    [wb EXCEPT ![row - 1].status = sDONE, ![row - 1].updated = strftime(now)]

(***************************************************************************)
(* load_next_row on its own: the sheet is any sheet of at most MaxLoadRows *)
(* data rows whose cells are drawn from the texts below.                   *)
(***************************************************************************)
LoadTitles == {<<>>, <<" ">>, <<" ", "T", "\t">>}
LoadBodies == {<<"\n">>, <<"B", " ">>}
LoadStatuses ==
    {<<>>, sDONE, <<"d", "o", "n", "e">>, <<" ", "D", "o", "n", "e", "\t">>,
     <<"s", "k", "i", "p">>, <<"D", "O", " ", "N", "E">>,
     <<"P", "u", "b", "l", "i", "s", "h", "e", "d", " ">>}

LoadRowSet ==
    [title : LoadTitles, body : LoadBodies, status : LoadStatuses, updated : {0}]

SheetsOf(rowset, n) == UNION {[1..k -> rowset] : k \in 0..n}

NoResult == [row |-> NoRow, title |-> <<>>, body |-> <<>>]

LqIdle == [pc |-> "off", rows |-> <<>>, res |-> NoResult]

LoadCall ==
    /\ lq.pc = "input"
    /\ lq' = [lq EXCEPT !.pc = "loaded", !.res = load_next_row(lq.rows)]
    /\ UNCHANGED <<file, sample, u, o, runs, clock, doneRows, lg, fs, aux>>

\* what the claim calls a non-empty trimmed text
HasText(s) == \E k \in 1..Len(s) : s[k] \notin Whitespace

\* s is w in some letter case, surrounded by white space only
TrimmedUpperIs(s, w) ==
    \E a \in 0..Len(s) :
        /\ a + Len(w) <= Len(s)
        /\ \A k \in 1..Len(s) :
              IF k <= a \/ k > a + Len(w) THEN s[k] \in Whitespace
              ELSE UpperChar(s[k]) = w[k - a]

IsPending(rows, i) ==
    /\ HasText(Cell(rows, i).title)
    /\ HasText(Cell(rows, i).body)
    /\ \A w \in TerminalStatuses : ~TrimmedUpperIs(Cell(rows, i).status, w)

PendingRows(rows) == {i \in 2..(Len(rows) + 1) : IsPending(rows, i)}

\* C1: load_next_row returns the first row, from row 2 on, whose trimmed title
\* and body are non-empty and whose trimmed upper-cased status is not DONE,
\* PUBLISHED or SKIP, and returns no row exactly when there is no such row.
C1_FirstPendingRow ==
    lq.pc = "loaded" =>
        LET P == PendingRows(lq.rows)
        IN  /\ (lq.res.row = NoRow) <=> (P = {})
            /\ P # {} => /\ lq.res.row \in P
                         /\ \A j \in P : lq.res.row <= j
                         /\ HasText(lq.res.title) /\ HasText(lq.res.body)
                         /\ lq.res.title = strip(Cell(lq.rows, lq.res.row).title)

C1_Witness ==
    /\ lq.pc = "loaded"
    /\ lq.res.row = 3
    /\ HasText(Cell(lq.rows, 2).title) /\ HasText(Cell(lq.rows, 2).body)
    /\ Cell(lq.rows, 2).status \notin TerminalStatuses
    /\ TrimmedUpperIs(Cell(lq.rows, 2).status, sDONE)

\* the status of row i is outside the terminal set
NonTerminal(rows, i) ==
    \A w \in TerminalStatuses : ~TrimmedUpperIs(Cell(rows, i).status, w)

NonTerminalRows(rows) == {i \in 2..(Len(rows) + 1) : NonTerminal(rows, i)}

AutoSteps == <<"setup", "login", "nav", "load", "title", "body", "submit", "mark">>
MallSteps == <<"load", "setup", "login", "nav", "title", "body", "submit", "mark">>

StepsOf(variant) == IF variant = "auto" THEN AutoSteps ELSE MallSteps

NextStep(variant, pc) ==
    LET steps == StepsOf(variant)
        k == CHOOSE j \in 1..Len(steps) : steps[j] = pc
    IN  IF k = Len(steps) THEN "exit" ELSE steps[k + 1]

\* the texts auto_write uses under --no-excel
sTestTitle == <<"T", "e", "s", "t">>
sTestBody == <<"B", "o", "d", "y">>

NoFile == [exists |-> FALSE, rows |-> <<>>]

UIdle ==
    [pc |-> "off", variant |-> "none", noExcel |-> FALSE, child |-> FALSE,
     start |-> NoFile, wb |-> <<>>, row |-> NoRow, title |-> <<>>, body |-> <<>>,
     clicked |-> FALSE, accepted |-> FALSE, marked |-> FALSE,
     fail |-> "none", exc |-> "none", exit |-> -1]

NewUploader(variant, noExcel, child, f) ==
    [UIdle EXCEPT !.pc = StepsOf(variant)[1], !.variant = variant,
                  !.noExcel = noExcel, !.child = child, !.start = f]

\* Exit status of the interpreter when an exception is raised at step pc.
\* auto_write: setup_driver is called before the try (398); inside the try
\* both handlers (476-484) swallow the exception and main returns.
\* mall_auto_write: load_next_row and setup_driver are outside the try; the
\* alert handler re-raises (506) and nothing catches the other exceptions.
main_exit_code(variant, pc, exc) ==
    IF variant = "auto" THEN (IF pc = "setup" THEN 1 ELSE 0) ELSE 1

\* a plausible slip: a missing submit control is logged and the run goes on
Raise_swallow_submit(us, reason, exc) ==
    IF reason = "submit_missing"
    THEN [us EXCEPT !.pc = NextStep(us.variant, us.pc), !.fail = reason, !.exc = exc]
    ELSE [us EXCEPT !.pc = "exit", !.fail = reason, !.exc = exc,
                    !.exit = main_exit_code(us.variant, us.pc, exc)]

\* an exception leaves main: nothing after the raising statement is executed
Raise(us, reason, exc) ==
    [us EXCEPT !.pc = "exit", !.fail = reason, !.exc = exc,
               !.exit = main_exit_code(us.variant, us.pc, exc)]

Advance(us) == [us EXCEPT !.pc = NextStep(us.variant, us.pc)]

\* main returns normally
Return(us) == [us EXCEPT !.pc = "exit", !.exit = 0]

OIdle ==
    [pc |-> "off", missing |-> FALSE, sampleExit |-> -1, genExit |-> -1,
     upExit |-> -1, report |-> "none", exit |-> -1]

Idle == o.pc \in {"off", "exit"} /\ u.pc \in {"off", "exit"}

StartUploader ==
    /\ Idle
    /\ runs < MaxRuns
    /\ \E variant \in {"auto", "mall"}, noExcel \in BOOLEAN :
          /\ noExcel => variant = "auto"
          /\ u' = NewUploader(variant, noExcel, FALSE, file)
    /\ runs' = runs + 1
    /\ o' = OIdle
    /\ UNCHANGED <<file, sample, clock, doneRows, lq, lg, fs, aux>>

\* setup_driver(): returns a session or raises when both launches fail
USetup ==
    /\ u.pc = "setup"
    /\ \E launched \in BOOLEAN :
          u' = IF launched THEN Advance(u) ELSE Raise(u, "setup", "error")
    /\ UNCHANGED <<file, sample, o, runs, clock, doneRows, lq, lg, fs, aux>>

\* ensure_login(): returns, raises RuntimeError (login not confirmed), or
\* lets an exception of a page load through
LoginOutcomes == {"ok", "login", "alert"}

ULogin ==
    /\ u.pc = "login"
    /\ \E r \in LoginOutcomes :
          u' = CASE r = "ok" -> Advance(u)
                 [] r = "login" -> Raise(u, "login", "error")
                 [] OTHER -> Raise(u, "alert", "alert")
    /\ UNCHANGED <<file, sample, o, runs, clock, doneRows, lq, lg, fs, aux>>

\* ensure_write_page(): returns or raises RuntimeError (form unreachable);
\* in mall_auto_write safe_get and the nested ensure_login can raise too
NavOutcomes(variant) ==
    IF variant = "auto" THEN {"ok", "nav"} ELSE {"ok", "nav", "login", "alert"}

UNav ==
    /\ u.pc = "nav"
    /\ \E r \in NavOutcomes(u.variant) :
          u' = CASE r = "ok" -> Advance(u)
                 [] r = "alert" -> Raise(u, "alert", "alert")
                 [] OTHER -> Raise(u, r, "error")
    /\ UNCHANGED <<file, sample, o, runs, clock, doneRows, lq, lg, fs, aux>>

\* load_next_row() as main calls it (auto_write 409-417, mall 474-477)
ULoad ==
    /\ u.pc = "load"
    /\ IF u.noExcel
       THEN u' = [Advance(u) EXCEPT !.title = sTestTitle, !.body = sTestBody]
       ELSE IF ~file.exists
       THEN u' = Raise(u, "nofile", "error")
       ELSE LET res == load_next_row(file.rows)
                 us == [u EXCEPT !.wb = file.rows, !.row = res.row,
                                 !.title = res.title, !.body = res.body]
            IN  u' = IF res.row = NoRow THEN Return(us) ELSE Advance(us)
    /\ UNCHANGED <<file, sample, o, runs, clock, doneRows, lq, lg, fs, aux>>

\* title: find_subject + send_keys (auto 420-425), fill_title (mall 329-339)
UTitle ==
    /\ u.pc = "title"
    /\ \E r \in {"ok", "title", "alert"} :
          u' = CASE r = "ok" -> Advance(u)
                 [] r = "title" -> Raise(u, "title", "error")
                 [] OTHER -> Raise(u, "alert", "alert")
    /\ UNCHANGED <<file, sample, o, runs, clock, doneRows, lq, lg, fs, aux>>

\* body: find_body_targets + injection (auto 428-448), fill_body (mall 342-389)
UBody ==
    /\ u.pc = "body"
    /\ \E r \in {"ok", "body", "alert"} :
          u' = CASE r = "ok" -> Advance(u)
                 [] r = "body" -> Raise(u, "body", "error")
                 [] OTHER -> Raise(u, "alert", "alert")
    /\ UNCHANGED <<file, sample, o, runs, clock, doneRows, lq, lg, fs, aux>>

\* What the submit step can meet.  "missing": no submit control; "alert": the
\* click raises; "clicked": the click went through and the alerts were
\* accepted; "timeout": the click went through and wait_ready (auto 467)
\* raised.  mall's submit_post swallows every exception of a candidate and
\* tries the next one, so it either clicks or finds nothing.
SubmitOutcomes(variant) ==
    IF variant = "auto" THEN {"missing", "alert", "clicked", "timeout"}
    ELSE {"missing", "clicked"}

\* submit (auto 451-469, mall submit_post 392-409): the click is followed by
\* accept_all_alerts only; the answer of the site is never looked at
submit_post(us, r, siteAccepts) ==
    CASE r = "missing" -> Raise(us, "submit_missing", "error")
      [] r = "alert" -> Raise(us, "alert", "alert")
      [] r = "timeout" -> Raise([us EXCEPT !.clicked = TRUE, !.accepted = siteAccepts],
                                "submit_wait", "error")
      [] OTHER -> Advance([us EXCEPT !.clicked = TRUE, !.accepted = siteAccepts])

USubmit ==
    /\ u.pc = "submit"
    /\ \E r \in SubmitOutcomes(u.variant), siteAccepts \in BOOLEAN :
          u' = submit_post(u, r, siteAccepts)
    /\ UNCHANGED <<file, sample, o, runs, clock, doneRows, lq, lg, fs, aux>>

\* seconds that pass before mark_done reads the clock
Elapsed == {20, 50}

\* mark_done and wb.save (auto 472-474 guards it by `wb and ws and row`,
\* mall 497 calls it unconditionally); the save rewrites the whole file
UMark ==
    /\ u.pc = "mark"
    /\ IF u.row # NoRow
       THEN \E d \in Elapsed :
              /\ clock' = clock + d
              /\ file' = [exists |-> TRUE, rows |-> mark_done(u.wb, u.row, clock')]
              /\ u' = Return([u EXCEPT !.marked = TRUE])
              /\ doneRows' = doneRows \cup {u.row}
       ELSE /\ u' = Return(u)
            /\ UNCHANGED <<file, clock, doneRows>>
    /\ UNCHANGED <<sample, o, runs, lq, lg, fs, aux>>

(***************************************************************************)
(* create_contents.main (200-256) and make_sample_data.main (201-228)      *)
(***************************************************************************)
\* sizes of the three groups of CATEGORIES (create_contents 29-33)
CATEGORIES == <<4, 5, 5>>

AllPairs == CATEGORIES[1] + CATEGORIES[2] + CATEGORIES[3]

\* len(to_generate): --count n stops at n pairs, 0 takes the whole table
to_generate(count) ==
    IF count > 0 THEN (IF count < AllPairs THEN count ELSE AllPairs) ELSE AllPairs

\* generate_post returns a title that starts with the category prefix and a
\* body that ends with the disclaimer: both are non-empty texts
sGenTitle == <<"[", "c", "]", " ", "g">>
sGenBody == <<"g", "\n", "d">>

\* the row the loop body writes to (create_contents 231-244)
target_row(rows, onlyEmpty) ==
    LET empties == {i \in 2..max_row(rows) :
                       /\ strip(Cell(rows, i).title) = <<>>
                       /\ strip(Cell(rows, i).body) = <<>>
                       /\ upper(strip(Cell(rows, i).status)) # sSKIP}
    IN  IF onlyEmpty /\ empties # {}
        THEN CHOOSE i \in empties : \A j \in empties : i <= j
        ELSE max_row(rows) + 1

RECURSIVE generate_rows(_, _, _, _)
generate_rows(rows, n, onlyEmpty, now) ==
    IF n = 0 THEN rows
    ELSE LET row == target_row(rows, onlyEmpty)
             new == [title |-> sGenTitle, body |-> sGenBody, status |-> <<>>,
                     updated |-> strftime(now)]
             written == IF row = max_row(rows) + 1 THEN Append(rows, new)
                        ELSE [rows EXCEPT ![row - 1] = new]
         IN  generate_rows(written, n - 1, onlyEmpty, now)

\* ensure_workbook (119-130) creates and saves a header-only file when the
\* queue file is absent; the loop result is saved only if no generate_post
\* call raised (the model function is an external call)
create_contents_main(f, onlyEmpty, count, modelOk, now) ==
    LET wb == IF f.exists THEN f.rows ELSE <<>>
    IN  IF modelOk
        THEN [exit |-> 0,
              file |-> [exists |-> TRUE,
                        rows |-> generate_rows(wb, to_generate(count), onlyEmpty, now)]]
        ELSE [exit |-> 1, file |-> [exists |-> TRUE, rows |-> wb]]

\* the options make_sample_data's parser declares (203-204)
SampleOptions == {"--force", "--only"}

\* make_sample_data.main: argparse exits with status 2 on an option it does
\* not declare; XLSX is tools/docs/data.xlsx (ROOT is the tools directory,
\* 20-22), which is the file `sample`, not the queue file
make_sample_data_main(opts, onlyMatches, sampleExists) ==
    IF ~(opts \subseteq SampleOptions) THEN [exit |-> 2, sample |-> sampleExists]
    ELSE IF sampleExists /\ "--force" \notin opts THEN [exit |-> 0, sample |-> sampleExists]
    ELSE IF "--only" \in opts /\ ~onlyMatches THEN [exit |-> 0, sample |-> sampleExists]
    ELSE [exit |-> 0, sample |-> TRUE]

RunGenerator ==
    /\ Idle
    /\ runs < MaxRuns
    /\ \E onlyEmpty \in BOOLEAN, count \in {0, 1}, modelOk \in BOOLEAN :
          file' = create_contents_main(file, onlyEmpty, count, modelOk, clock).file
    /\ runs' = runs + 1
    /\ u' = UIdle
    /\ o' = OIdle
    /\ UNCHANGED <<sample, clock, doneRows, lq, lg, fs, aux>>

RunMakeSample ==
    /\ Idle
    /\ runs < MaxRuns
    /\ \E opts \in SUBSET SampleOptions, onlyMatches \in BOOLEAN :
          sample' = make_sample_data_main(opts, onlyMatches, sample).sample
    /\ runs' = runs + 1
    /\ u' = UIdle
    /\ o' = OIdle
    /\ UNCHANGED <<file, clock, doneRows, lq, lg, fs, aux>>

(***************************************************************************)
(* The orchestrator: run_post.main (31-62).  run(cmd) is                   *)
(* subprocess.run(cmd, check=True): a non-zero exit status of the child    *)
(* raises CalledProcessError.                                              *)
(***************************************************************************)
StartOrchestrator ==
    /\ Idle
    /\ runs < MaxRuns
    /\ runs' = runs + 1
    /\ o' = [OIdle EXCEPT !.pc = "check"]
    /\ u' = UIdle
    /\ UNCHANGED <<file, sample, clock, doneRows, lq, lg, fs, aux>>

\* step 1 (38-42): the sample is made with `--rows 1`; the call is not inside
\* a try, so CalledProcessError ends the orchestrator
OrchSample ==
    /\ o.pc = "check"
    /\ IF file.exists
       THEN /\ o' = [o EXCEPT !.pc = "gen"]
            /\ UNCHANGED sample
       ELSE LET res == make_sample_data_main({"--rows"}, TRUE, sample)
            IN  /\ sample' = res.sample
                /\ o' = IF res.exit # 0
                        THEN [o EXCEPT !.pc = "exit", !.missing = TRUE,
                                       !.sampleExit = res.exit, !.exit = 1]
                        ELSE [o EXCEPT !.pc = "gen", !.missing = TRUE,
                                       !.sampleExit = res.exit]
    /\ UNCHANGED <<file, u, runs, clock, doneRows, lq, lg, fs, aux>>

\* step 2 (44-51): create_contents.py --only-empty; on failure main returns
OrchGenerate ==
    /\ o.pc = "gen"
    /\ \E modelOk \in BOOLEAN :
          LET res == create_contents_main(file, TRUE, 0, modelOk, clock)
          IN  /\ file' = res.file
              /\ o' = IF res.exit # 0
                      THEN [o EXCEPT !.pc = "exit", !.genExit = res.exit,
                                     !.report = "generator failed", !.exit = 0]
                      ELSE [o EXCEPT !.pc = "upload", !.genExit = res.exit]
    /\ UNCHANGED <<sample, u, runs, clock, doneRows, lq, lg, fs, aux>>

\* step 3 (53-56): auto_write.py --url write_url is started
OrchUpload ==
    /\ o.pc = "upload"
    /\ u' = NewUploader("auto", FALSE, TRUE, file)
    /\ o' = [o EXCEPT !.pc = "wait"]
    /\ UNCHANGED <<file, sample, runs, clock, doneRows, lq, lg, fs, aux>>

\* step 3 (57-62): the message printed once the uploader has exited
OrchReport ==
    /\ o.pc = "wait"
    /\ u.pc = "exit"
    /\ o' = [o EXCEPT !.pc = "exit", !.upExit = u.exit, !.exit = 0,
                      !.report = IF u.exit # 0 THEN "upload failed"
                                 ELSE "upload succeeded"]
    /\ UNCHANGED <<file, sample, u, runs, clock, doneRows, lq, lg, fs, aux>>

(***************************************************************************)
(* ensure_login (auto_write 242-288, mall_auto_write 230-248) with         *)
(* try_auto_login (auto_write 178-240, mall_auto_write 134-211), one call  *)
(***************************************************************************)
EnvNames == {"ZAEDA_ID", "ZAEDA_PW", "MALL_ID", "MALL_PW"}

\* `if not uid or not pw: return False` on the variables the variant reads
HasCredentials(variant, env) ==
    IF variant = "auto" THEN {"ZAEDA_ID", "ZAEDA_PW"} \subseteq env
    ELSE {"MALL_ID", "MALL_PW"} \subseteq env

NumLoginUrls == 6    \* len(login_urls)
PollLimit == 20      \* range(20) of the login result wait

LgIdle ==
    [pc |-> "off", variant |-> "none", env |-> {}, k |-> 0, autoCalled |-> FALSE,
     autoResult |-> "none", typed |-> FALSE, manual |-> FALSE, result |-> "none"]

LgReturn(l) == [l EXCEPT !.pc = "done", !.result = "return"]

LgRaise(l, exc) == [l EXCEPT !.pc = "done", !.result = exc]

\* a plausible slip: a session that is not logged in goes straight to the
\* manual login
after_check_skip_auto(l, loggedIn) ==
    IF loggedIn THEN LgReturn(l) ELSE [l EXCEPT !.pc = "manual_nav"]

\* the first is_logged_in test of ensure_login
after_check(l, loggedIn) ==
    IF loggedIn THEN LgReturn(l) ELSE [l EXCEPT !.pc = "auto"]

\* `if try_auto_login(...): return`, else the manual branch
auto_returns(l, ok) ==
    IF ok THEN LgReturn([l EXCEPT !.autoResult = "True"])
    ELSE [l EXCEPT !.autoResult = "False", !.pc = "manual_nav"]

LoginCheck ==
    /\ lg.pc = "check"
    /\ \E loggedIn \in BOOLEAN : lg' = after_check(lg, loggedIn)
    /\ UNCHANGED <<file, sample, u, o, runs, clock, doneRows, lq, fs, aux>>

\* try_auto_login is entered; without credentials it returns False at once
LoginAutoEnter ==
    /\ lg.pc = "auto"
    /\ LET l == [lg EXCEPT !.autoCalled = TRUE]
       IN  lg' = IF ~HasCredentials(lg.variant, lg.env) THEN auto_returns(l, FALSE)
                 ELSE IF lg.variant = "auto" THEN [l EXCEPT !.pc = "auto_url", !.k = 1]
                 ELSE [l EXCEPT !.pc = "auto_home"]
    /\ UNCHANGED <<file, sample, u, o, runs, clock, doneRows, lq, fs, aux>>

\* one pass of the loop over login_urls (auto_write 184-239)
UrlOutcomes ==
    {"load failed", "no fields", "no button", "alert", "not logged in", "logged in"}

LoginAutoUrl ==
    /\ lg.pc = "auto_url"
    /\ \E r \in UrlOutcomes :
          LET l == [lg EXCEPT !.typed = @ \/ r \notin {"load failed", "no fields"}]
          IN  lg' = IF r = "logged in" THEN auto_returns(l, TRUE)
                    ELSE IF lg.k = NumLoginUrls THEN auto_returns(l, FALSE)
                    ELSE [l EXCEPT !.k = @ + 1]
    /\ UNCHANGED <<file, sample, u, o, runs, clock, doneRows, lq, fs, aux>>

\* mall try_auto_login up to the submit (142-200): safe_get and wait_ready are
\* outside its try and raise through ensure_login
LoginAutoHome ==
    /\ lg.pc = "auto_home"
    /\ \E r \in {"raise", "no fields", "submitted"} :
          lg' = CASE r = "raise" -> LgRaise(lg, "exception")
                  [] r = "no fields" -> auto_returns(lg, FALSE)
                  [] OTHER -> [lg EXCEPT !.typed = TRUE, !.pc = "auto_poll", !.k = 1]
    /\ UNCHANGED <<file, sample, u, o, runs, clock, doneRows, lq, fs, aux>>

\* mall try_auto_login, the wait for the result (203-209)
LoginAutoPoll ==
    /\ lg.pc = "auto_poll"
    /\ \E loggedIn \in BOOLEAN :
          lg' = IF loggedIn THEN auto_returns(lg, TRUE)
                ELSE IF lg.k = PollLimit THEN auto_returns(lg, FALSE)
                ELSE [lg EXCEPT !.k = @ + 1]
    /\ UNCHANGED <<file, sample, u, o, runs, clock, doneRows, lq, fs, aux>>

\* the page shown for the manual login: auto_write swallows the load errors
\* (273-281) and calls input(); mall's safe_get (245) can raise
LoginManualNav ==
    /\ lg.pc = "manual_nav"
    /\ \E loaded \in BOOLEAN :
          lg' = IF loaded \/ lg.variant = "auto"
                THEN [lg EXCEPT !.pc = "manual_wait", !.manual = TRUE]
                ELSE LgRaise(lg, "exception")
    /\ UNCHANGED <<file, sample, u, o, runs, clock, doneRows, lq, fs, aux>>

\* input() and the re-check (auto_write 283-288), wait_until_logged_in
\* (mall 214-227, 247-248)
LoginManualWait ==
    /\ lg.pc = "manual_wait"
    /\ \E r \in {"raise", "logged in", "not logged in"} :
          /\ r = "raise" => lg.variant = "auto"
          /\ lg' = CASE r = "raise" -> LgRaise(lg, "exception")
                     [] r = "logged in" -> LgReturn(lg)
                     [] OTHER -> LgRaise(lg, "RuntimeError")
    /\ UNCHANGED <<file, sample, u, o, runs, clock, doneRows, lq, fs, aux>>

CredentialsConfigured(env) ==
    {"ZAEDA_ID", "ZAEDA_PW"} \subseteq env \/ {"MALL_ID", "MALL_PW"} \subseteq env

\* C9: whenever ensure_login has entered the manual login wait while a
\* credential pair is configured, try_auto_login was called earlier in that
\* call and returned False.
C9_AutoBeforeManual ==
    (lg.manual /\ CredentialsConfigured(lg.env)) =>
        (lg.autoCalled /\ lg.autoResult = "False")

C9_Witness ==
    /\ lg.manual
    /\ HasCredentials(lg.variant, lg.env)
    /\ lg.typed
    /\ lg.autoResult = "False"
    /\ lg.pc = "manual_wait"

(***************************************************************************)
(* Selector-candidate lookups: find_first (mall_auto_write 104-114),       *)
(* find_subject (auto_write 328-341), find_body_targets (auto_write        *)
(* 343-362).  A page is the sequence of its elements in document order; a  *)
(* selector is a tag and a set of attribute tests.                         *)
(***************************************************************************)
El(tag, name, id, ce, cls) ==
    [tag |-> tag, name |-> name, id |-> id, ce |-> ce, cls |-> cls, type |-> "text"]

ElementKinds ==
    {El("input", "wr_subject", "", "", ""),
     El("input", "title", "", "", ""),
     El("input", "", "subject", "", ""),
     El("textarea", "content", "", "", ""),
     El("textarea", "", "", "", ""),
     El("textarea", "", "wr_content", "", ""),
     El("div", "", "", "true", ""),
     El("div", "", "", "", "se2_inputarea"),
     El("iframe", "", "", "", "")}

Sel(tag, conds) == [tag |-> tag, conds |-> conds]

Matches(e, sel) == e.tag = sel.tag /\ \A c \in sel.conds : e[c[1]] = c[2]

\* drv.find_elements(By.CSS_SELECTOR, "s1, s2, ..."): the elements matching
\* any selector of the group, in document order
find_elements(page, group) ==
    {k \in 1..Len(page) : \E sel \in group : Matches(page[k], sel)}

NoElement == 0

\* els[0], or find_element: the first match in document order
first_element(page, group) ==
    LET els == find_elements(page, group)
    IN  IF els = {} THEN NoElement ELSE CHOOSE k \in els : \A j \in els : k <= j

\* `for sel in selectors:` returning at the first selector that matches
RECURSIVE first_candidate(_, _, _)
first_candidate(page, selectors, k) ==
    IF k > Len(selectors) THEN [el |-> NoElement, cand |-> 0]
    ELSE IF first_element(page, {selectors[k]}) # NoElement
         THEN [el |-> first_element(page, {selectors[k]}), cand |-> k]
         ELSE first_candidate(page, selectors, k + 1)

\* fill_title's list (mall 330-335) and fill_body's list (mall 348)
TitleInputs ==
    <<Sel("input", {<<"name", "wr_subject">>}), Sel("input", {<<"name", "subject">>}),
      Sel("input", {<<"name", "title">>}),
      Sel("input", {<<"type", "text">>, <<"id", "wr_subject">>})>>

BodyTextareas ==
    <<Sel("textarea", {<<"name", "wr_content">>}), Sel("textarea", {<<"name", "content">>}),
      Sel("textarea", {<<"id", "wr_content">>}), Sel("textarea", {})>>

\* find_first: NoSuchElementException is the result without element
find_first(page, selectors) == first_candidate(page, selectors, 1)

\* sels of find_subject (auto 329-336)
SubjectSels ==
    <<Sel("input", {<<"name", "wr_subject">>}), Sel("input", {<<"name", "subject">>}),
      Sel("input", {<<"name", "title">>}), Sel("input", {<<"id", "wr_subject">>}),
      Sel("input", {<<"id", "subject">>}), Sel("input", {<<"id", "title">>})>>

find_subject(page) == first_candidate(page, SubjectSels, 1)

\* the one selector group of find_body_targets (auto 345) and its editor
\* list (auto 351-355)
TextareaGroup ==
    <<Sel("textarea", {<<"name", "wr_content">>}), Sel("textarea", {<<"name", "content">>}),
      Sel("textarea", {<<"id", "wr_content">>}), Sel("textarea", {<<"id", "content">>}),
      Sel("textarea", {})>>

EditorSels ==
    <<Sel("div", {<<"ce", "true">>}), Sel("div", {<<"cls", "se2_inputarea">>}),
      Sel("iframe", {})>>

Range(seq) == {seq[k] : k \in 1..Len(seq)}

\* find_body_targets: the text areas are looked up with one find_elements
\* call on the comma-joined group, the editors one selector at a time
find_body_targets(page) ==
    LET ta == first_element(page, Range(TextareaGroup))
        ed == first_candidate(page, EditorSels, 1)
    IN  IF ta # NoElement THEN [kind |-> "textarea", el |-> ta]
        ELSE IF ed.el # NoElement THEN [kind |-> "editor", el |-> ed.el]
        ELSE [kind |-> "None", el |-> NoElement]

Lookups == {"find_first title", "find_first body", "find_subject", "find_body_targets"}

\* the candidates of a lookup, in the order the source lists them
Candidates(fn) ==
    CASE fn = "find_first title" -> TitleInputs
      [] fn = "find_first body" -> BodyTextareas
      [] fn = "find_subject" -> SubjectSels
      [] OTHER -> TextareaGroup \o EditorSels

FsIdle == [pc |-> "off", fn |-> "none", page |-> <<>>, el |-> NoElement]

FindCall ==
    /\ fs.pc = "input"
    /\ fs' = [fs EXCEPT !.pc = "found",
                !.el = CASE fs.fn = "find_first title" -> find_first(fs.page, TitleInputs).el
                         [] fs.fn = "find_first body" -> find_first(fs.page, BodyTextareas).el
                         [] fs.fn = "find_subject" -> find_subject(fs.page).el
                         [] OTHER -> find_body_targets(fs.page).el]
    /\ UNCHANGED <<file, sample, u, o, runs, clock, doneRows, lq, lg, aux>>

\* C10: in every ordered lookup, when the first N candidates match nothing
\* and candidate N+1 matches, the element returned is the one candidate N+1
\* matches, whatever the later candidates match.
C10_FirstCandidateWins ==
    fs.pc = "found" =>
        LET cands == Candidates(fs.fn)
            present == {k \in 1..Len(cands) :
                           \E j \in 1..Len(fs.page) : Matches(fs.page[j], cands[k])}
        IN  present # {} =>
              LET n == CHOOSE k \in present : \A j \in present : k <= j
                  hits == {j \in 1..Len(fs.page) : Matches(fs.page[j], cands[n])}
              IN  fs.el = CHOOSE j \in hits : \A i \in hits : j <= i

\* the same statement for the lookups that try one selector at a time
FindFirstCandidateWins ==
    (fs.pc = "found" /\ fs.fn # "find_body_targets") => C10_FirstCandidateWins

(***************************************************************************)
(* is_logged_in: the authentication heuristic of both uploaders            *)
(***************************************************************************)
\* longest page, in elements
MaxHtml == 2

\* Hangul syllables are written by their romanised names, one string per
\* code point; Latin letters are themselves
sLogoutKo == <<"ro", "geu", "a_", "us">>
sLoginKo == <<"ro", "geu", "in">>
sWriteKo == <<"geul", "sseu", "gi">>
sLogoutCap == <<"L", "o", "g", "o", "u", "t">>
sLogoutAllCaps == <<"L", "O", "G", "O", "U", "T">>
sLogoutLow == <<"l", "o", "g", "o", "u", "t">>
sWriteEn == <<"W", "r", "i", "t", "e">>
sLogoutHref == <<"/">> \o sLogoutLow
sExit == <<"na", "ga", "gi">>

\* str.lower() on the characters the pages use
LowerChar(c) ==
    CASE c = "L" -> "l" [] c = "O" -> "o" [] c = "G" -> "g"
      [] c = "U" -> "u" [] c = "T" -> "t" [] c = "W" -> "w"
      [] OTHER -> c

lower(s) == [k \in 1..Len(s) |-> LowerChar(s[k])]

\* the "in" operator of str, and XPath contains()
Contains(s, w) ==
    \E k \in 0..(Len(s) - Len(w)) : SubSeq(s, k + 1, k + Len(w)) = w

\* an element of a page: its tag, its text, its href and what is_enabled() says
Node(tag, text, href, enabled) ==
    [tag |-> tag, text |-> text, href |-> href, enabled |-> enabled]

NodeKinds ==
    { Node("a", sLogoutKo, <<>>, TRUE),
      Node("button", sLogoutKo, <<>>, TRUE),
      Node("span", sLoginKo, <<>>, TRUE),
      Node("a", sLoginKo, <<>>, TRUE),
      Node("a", sLogoutCap, <<>>, TRUE),
      Node("span", sLogoutAllCaps, <<>>, TRUE),
      Node("a", sExit, sLogoutHref, TRUE),
      Node("a", sWriteKo, <<>>, TRUE),
      Node("a", sWriteKo, <<>>, FALSE),
      Node("button", sWriteKo, <<>>, TRUE),
      Node("button", sWriteKo, <<>>, FALSE),
      Node("a", sWriteEn, <<>>, TRUE) }

HtmlPages == UNION {[1..k -> NodeKinds] : k \in 0..MaxHtml}

\* the markup of one element: <tag href>text
Markup(n) == <<"<">> \o <<n.tag>> \o n.href \o <<">">> \o n.text

RECURSIVE page_source(_)
page_source(page) ==
    IF page = <<>> THEN <<>>
    ELSE Markup(Head(page)) \o page_source(Tail(page))

\* //a[contains(.,'로그아웃') or contains(.,'Logout')]
AutoLogoutLink(n) ==
    n.tag = "a" /\ (Contains(n.text, sLogoutKo) \/ Contains(n.text, sLogoutCap))

\* //a[contains(.,'글쓰기') or contains(.,'Write')] | //button[contains(.,'글쓰기')]
WriteButton(n) ==
    \/ n.tag = "a" /\ (Contains(n.text, sWriteKo) \/ Contains(n.text, sWriteEn))
    \/ n.tag = "button" /\ Contains(n.text, sWriteKo)

\* //a[contains(@href,'logout') or contains(.,'로그아웃')]
MallLogoutLink(n) ==
    n.tag = "a" /\ (Contains(n.href, sLogoutLow) \/ Contains(n.text, sLogoutKo))

auto_is_logged_in_anybutton(page, raises) ==
    IF raises THEN FALSE
    ELSE IF SelectSeq(page, AutoLogoutLink) /= <<>> THEN TRUE
    ELSE SelectSeq(page, WriteButton) /= <<>>

\* auto_write.is_logged_in
auto_is_logged_in(page, raises) ==
    IF raises THEN FALSE
    ELSE IF SelectSeq(page, AutoLogoutLink) /= <<>> THEN TRUE
    ELSE LET write_btns == SelectSeq(page, WriteButton)
         IN  IF write_btns /= <<>> THEN write_btns[1].enabled ELSE FALSE

\* mall_auto_write.is_logged_in
mall_is_logged_in(page, raises) ==
    IF raises THEN FALSE
    ELSE LET html == page_source(page)
         IN  IF Contains(html, sLogoutKo) \/ Contains(lower(html), sLogoutLow)
             THEN TRUE
             ELSE Len(SelectSeq(page, MallLogoutLink)) > 0

is_logged_in(variant, page, raises) ==
    IF variant = "auto" THEN auto_is_logged_in(page, raises)
    ELSE mall_is_logged_in(page, raises)

LiIdle == [pc |-> "off", variant |-> "auto", page |-> <<>>, raises |-> FALSE,
           res |-> FALSE]

\* one call of is_logged_in on the page the browser shows
LoggedInCall ==
    /\ li.pc = "call"
    /\ li' = [li EXCEPT !.pc = "done",
                        !.res = is_logged_in(li.variant, li.page, li.raises)]
    /\ UNCHANGED <<basis, cc, sd, nv, fb, tg, bd>>

(***************************************************************************)
(* setup_driver: primary profile, then fallback profile                    *)
(***************************************************************************)
\* what one Chrome(service=Service(ChromeDriverManager().install()), ...)
\* can do: return a session, raise a WebDriverException (of which
\* SessionNotCreatedException is a subclass), or raise anything else
\* (the driver download or the service start failing outside selenium)
LaunchOutcomes == {"ok", "webdriver", "other"}

SdIdle == [pc |-> "off", variant |-> "auto", userDir |-> FALSE,
           profile |-> FALSE, fallbackEnv |-> FALSE, dir |-> "none",
           dirExists |-> FALSE, primary |-> "none", fallback |-> "none",
           res |-> "none"]

SdReturn(d) == [d EXCEPT !.pc = "done", !.res = "session"]

SdRaise(d) == [d EXCEPT !.pc = "done", !.res = "raised"]

\* the exceptions the first try block lets through
primary_catches(variant, out) ==
    IF variant = "auto" THEN TRUE            \* except Exception
    ELSE out = "webdriver"                   \* except (SessionNotCreatedException, WebDriverException)

\* the first try block
SetupPrimary ==
    /\ sd.pc = "primary"
    /\ \E out \in LaunchOutcomes :
          IF sd.variant = "auto" /\ ~sd.userDir
          THEN \* raise RuntimeError inside the try: no launch
               sd' = [sd EXCEPT !.pc = "fallback", !.primary = "unset"]
          ELSE LET d == [sd EXCEPT !.primary = out]
               IN  sd' = IF out = "ok" THEN SdReturn(d)
                         ELSE IF primary_catches(sd.variant, out)
                              THEN [d EXCEPT !.pc = "fallback"]
                              ELSE SdRaise(d)
    /\ UNCHANGED <<basis, cc, li, nv, fb, tg, bd>>

\* CHROME_FALLBACK_DIR, or the built-in directory when it is not set
fallback_dir(d) == IF d.fallbackEnv THEN "env" ELSE "default"

\* mkdir(parents=True, exist_ok=True), then the second launch; in auto_write
\* every exception becomes a RuntimeError, in mall_auto_write it propagates
SetupFallback ==
    /\ sd.pc = "fallback"
    /\ \E mk \in BOOLEAN, out \in LaunchOutcomes :
          IF ~sd.dirExists /\ ~mk
          THEN sd' = SdRaise([sd EXCEPT !.dir = fallback_dir(sd),
                                        !.fallback = "mkdir"])
          ELSE LET d == [sd EXCEPT !.dir = fallback_dir(sd),
                                   !.dirExists = TRUE, !.fallback = out]
               IN  sd' = IF out = "ok" THEN SdReturn(d) ELSE SdRaise(d)
    /\ UNCHANGED <<basis, cc, li, nv, fb, tg, bd>>

(***************************************************************************)
(* ensure_write_page: reaching the write form                              *)
(***************************************************************************)
\* the nested calls of mall_auto_write.goto_write_from_list are counted up to
\* this number; further ones happen but are no longer told apart
MaxRestarts == 1

NvIdle == [pc |-> "off", variant |-> "auto", listArg |-> FALSE, bid |-> FALSE,
           onWrite |-> FALSE, k |-> 0, restarts |-> 0, trace |-> <<>>,
           direct |-> "none", listing |-> "none", res |-> "none"]

\* the list_url main hands to ensure_write_page: auto_write has a default for
\* --list-url, mall_auto_write passes None when the option is omitted
list_url_given(variant, listArg) == variant = "auto" \/ listArg

\* the write-button candidates of goto_write_from_list
NumCandidates(variant, bid) ==
    IF variant = "auto" THEN 4 ELSE IF bid THEN 5 ELSE 4

NvReturn(n) == [n EXCEPT !.pc = "done", !.res = "ok"]

NvRaise(n, what) == [n EXCEPT !.pc = "done", !.res = what]

\* mall_auto_write.ensure_write_page, step A and the guard of step B
NavCheck ==
    /\ nv.pc = "check"
    /\ nv' = IF nv.onWrite THEN NvReturn(nv)
             ELSE IF list_url_given(nv.variant, nv.listArg)
                  THEN [nv EXCEPT !.pc = "list_open"]
                  ELSE [nv EXCEPT !.pc = "direct"]
    /\ UNCHANGED <<basis, cc, li, sd, fb, tg, bd>>

\* the load of write_url: step 1 of auto_write, step C of mall_auto_write
NavDirect ==
    /\ nv.pc = "direct"
    /\ \E ok \in BOOLEAN, loginOk \in BOOLEAN :
          LET n == [nv EXCEPT !.trace = Append(@, "direct"),
                              !.direct = IF ok THEN "ok" ELSE "failed"]
          IN  nv' = IF ok THEN NvReturn(n)
                    ELSE IF nv.variant = "auto"
                         THEN [n EXCEPT !.pc = "list_open"]
                         ELSE IF loginOk
                              THEN [n EXCEPT !.pc = "direct_retry"]
                              ELSE NvRaise(n, "login_error")
    /\ UNCHANGED <<basis, cc, li, sd, fb, tg, bd>>

\* mall_auto_write: the second load of write_url, after ensure_login
NavDirectRetry ==
    /\ nv.pc = "direct_retry"
    /\ \E ok \in BOOLEAN :
          LET n == [nv EXCEPT !.trace = Append(@, "direct"),
                              !.direct = IF ok THEN "ok" ELSE "failed"]
          IN  nv' = IF ok THEN NvReturn(n) ELSE NvRaise(n, "unreachable")
    /\ UNCHANGED <<basis, cc, li, sd, fb, tg, bd>>

\* what follows a goto_write_from_list that returned False
after_listing_failed(n) ==
    LET m == [n EXCEPT !.listing = "failed"]
    IN  IF n.variant = "auto" THEN NvRaise(m, "unreachable")
        ELSE [m EXCEPT !.pc = "direct"]

\* the loads so far, with one more of the listing page; reloads beyond the
\* counted nested calls are not recorded again
NoteListing(trace) ==
    IF Cardinality({i \in 1..Len(trace) : trace[i] = "listing"}) > MaxRestarts
    THEN trace
    ELSE Append(trace, "listing")

\* goto_write_from_list: the load of the listing page
NavListOpen ==
    /\ nv.pc = "list_open"
    /\ \E loads \in BOOLEAN :
          LET n == [nv EXCEPT !.trace = NoteListing(@), !.k = 1]
          IN  nv' = IF nv.variant = "auto" /\ ~loads
                    THEN after_listing_failed(n)
                    ELSE [n EXCEPT !.pc = "candidate"]
    /\ UNCHANGED <<basis, cc, li, sd, fb, tg, bd>>

\* only mall_auto_write handles UnexpectedAlertPresentException on its own
CandidateOutcomes(n) ==
    {"miss", "hit"} \cup (IF n.variant = "mall" THEN {"alert"} ELSE {})

\* goto_write_from_list: one candidate of the loop
NavCandidate ==
    /\ nv.pc = "candidate"
    /\ \E out \in CandidateOutcomes(nv), loginOk \in BOOLEAN :
          nv' = CASE out = "hit" -> NvReturn([nv EXCEPT !.listing = "ok"])
                  [] out = "miss" ->
                       IF nv.k < NumCandidates(nv.variant, nv.bid)
                       THEN [nv EXCEPT !.k = @ + 1]
                       ELSE after_listing_failed(nv)
                  [] out = "alert" ->
                       IF loginOk
                       THEN \* return goto_write_from_list(...): no budget
                            [nv EXCEPT !.pc = "list_open",
                                       !.restarts = IF @ < MaxRestarts
                                                    THEN @ + 1 ELSE @]
                       ELSE NvRaise(nv, "login_error")
    /\ UNCHANGED <<basis, cc, li, sd, fb, tg, bd>>

(***************************************************************************)
(* Body filling: fill_body, the body block of auto_write.main, and         *)
(* debug_iframes                                                           *)
(***************************************************************************)
\* most inline frames on a page
MaxFrames == 2

FbIdle == [pc |-> "off", fn |-> "fill_body", ta |-> FALSE, ed |-> FALSE,
           se2 |-> FALSE, frames |-> 0, idx |-> 0, ctx |-> "top",
           tried |-> <<>>, wrote |-> "none", res |-> "none"]

FbReturn(b, tier) == [b EXCEPT !.pc = "done", !.wrote = tier, !.res = "returned"]

FbRaise(b) == [b EXCEPT !.pc = "done", !.res = "raised"]

\* note the tier an injection is attempted on, once
Tried(b, tier) ==
    IF b.tried /= <<>> /\ b.tried[Len(b.tried)] = tier THEN b
    ELSE [b EXCEPT !.tried = Append(@, tier)]

\* auto_write.find_body_targets, as the body block of main branches on it
BodyFind ==
    /\ fb.pc = "find"
    /\ fb' = IF fb.ta THEN [fb EXCEPT !.pc = "textarea"]
             ELSE IF fb.ed \/ fb.se2 THEN [fb EXCEPT !.pc = "editable"]
             ELSE IF fb.frames > 0 THEN [fb EXCEPT !.pc = "frame_enter", !.idx = 1]
             ELSE FbRaise(fb)
    /\ UNCHANGED <<basis, cc, li, sd, nv, tg, bd>>

\* tier 1: clear() and send_keys() on the text area
BodyTextarea ==
    /\ fb.pc = "textarea"
    /\ \E ok \in BOOLEAN :
          IF ~fb.ta
          THEN \* only fill_body gets here: find_first raised, except: pass
               fb' = [fb EXCEPT !.pc = "editable"]
          ELSE LET b == Tried(fb, "textarea")
               IN  fb' = IF ok THEN FbReturn(b, "textarea")
                         ELSE IF fb.fn = "fill_body"
                              THEN [b EXCEPT !.pc = "editable"]
                              ELSE FbRaise(b)
    /\ UNCHANGED <<basis, cc, li, sd, nv, tg, bd>>

\* tier 2: innerHTML of the content-editable region
BodyEditable ==
    /\ fb.pc = "editable"
    /\ \E ok \in BOOLEAN :
          IF fb.fn = "fill_body" /\ ~fb.ed
          THEN fb' = [fb EXCEPT !.pc = "frame_enter", !.idx = 1]
          ELSE LET b == Tried(fb, "editable")
               IN  fb' = IF ok THEN FbReturn(b, "editable")
                         ELSE IF fb.fn = "fill_body"
                              THEN [b EXCEPT !.pc = "frame_enter", !.idx = 1]
                              ELSE FbRaise(b)
    /\ UNCHANGED <<basis, cc, li, sd, nv, tg, bd>>

\* tier 3: switch_to.frame on the next inline frame
BodyFrameEnter ==
    /\ fb.pc = "frame_enter"
    /\ \E ok \in BOOLEAN :
          IF fb.idx > fb.frames
          THEN fb' = IF fb.fn = "debug_iframes" THEN FbReturn(fb, "none")
                     ELSE FbRaise(fb)
          ELSE LET b == IF fb.fn = "debug_iframes" THEN fb
                        ELSE Tried(fb, "iframe")
               IN  fb' = IF ok THEN [b EXCEPT !.pc = "in_frame", !.ctx = "frame"]
                         ELSE IF fb.fn = "fill_body"
                              THEN [b EXCEPT !.idx = @ + 1]
                              ELSE FbRaise(b)
    /\ UNCHANGED <<basis, cc, li, sd, nv, tg, bd>>

restore_after_nofinally(fn, out) == IF out = "raise" THEN "frame" ELSE "top"

\* the context after the block that follows switch_to.frame: every one of the
\* three places calls switch_to.default_content() in a finally clause
restore_after(fn, out) == "top"

\* inside the frame: find the editable element and set its innerHTML
\* (debug_iframes only lists the bodies)
BodyInFrame ==
    /\ fb.pc = "in_frame"
    /\ \E out \in {"ok", "none", "raise"} :
          LET b == [fb EXCEPT !.ctx = restore_after(fb.fn, out)]
          IN  fb' = CASE fb.fn = "fill_body" ->
                           IF out = "ok" THEN FbReturn(b, "iframe")
                           ELSE [b EXCEPT !.pc = "frame_enter", !.idx = @ + 1]
                      [] fb.fn = "auto_body" ->
                           IF out = "ok" THEN FbReturn(b, "iframe")
                           ELSE FbRaise(b)
                      [] fb.fn = "debug_iframes" ->
                           IF out = "raise" THEN FbRaise(b)
                           ELSE [b EXCEPT !.pc = "frame_enter", !.idx = @ + 1]
    /\ UNCHANGED <<basis, cc, li, sd, nv, tg, bd>>

(***************************************************************************)
(* Titles: wrap_title_with_categories (create_contents) and gen_title      *)
(* (make_sample_data), computed on the characters of the built-in texts    *)
(***************************************************************************)
\* longest free part of a raw title, in characters
MaxTitleLen == 3

TITLE_MIN == 22
TITLE_MAX == 30

\* CATEGORIES of create_contents and CATS of make_sample_data: the same table
CatNames ==
    << <<"man", "seong", "jil", "hwan", " ", "gwan", "ri">>,
       <<"ma", "eum", "gwa", " ", "mom", " ", "gwan", "ri">>,
       <<"saeng", "hwal", "seup", "gwan", " ", "gwan", "ri">> >>

SubNames ==
    << << <<"dang", "nyo", " ", "gwan", "ri">>,
          <<"go", "hyeol", "ap", " ", "gwan", "ri">>,
          <<"bi", "man", " ", "gwan", "ri">>,
          <<"chi", "mae", " ", "gwan", "ri">> >>,
       << <<"bul", "myeon", "jeung">>,
          <<"man", "seong", "pi", "ro">>,
          <<"so", "hwa", "bul", "ryang">>,
          <<"du", "tong">>,
          <<"u_", "ul">> >>,
       << <<"sik", "seup", "gwan">>,
          <<"un", "dong", " ", "seup", "gwan">>,
          <<"bae", "byeon", " ", "seup", "gwan">>,
          <<"eum", "ju", " ", "seup", "gwan">>,
          <<"geum", "yeon">> >> >>

FORBIDDEN_WORDS ==
    << <<"1", "0", "0", "%", " ", "ye", "bang">>,
       <<"chung", "gyeok">>,
       <<"wan", "chi">> >>

sClipPad == <<"ga", "byeop", "ge", " ", "si", "jak", "hae", " ", "bo", "se", "yo">>

FitPads ==
    << <<" ", "ga", "i_", "deu">>,
       <<" ", "han", "nun", "jeong", "ri">>,
       <<" ", "haek", "sim", "tip">>,
       <<" ", "ppa", "reun", "jeong", "ri">>,
       <<" ", "si", "jak", "beop">> >>

sManage == <<" ", "gwan", "ri">>

\* the text before and after the key word, per style of TITLE_STYLES
CoreBefore ==
    << <<>>,
       <<>>,
       <<>>,
       <<"ba", "ppeun", " ", "jik", "jang", "in", " ">>,
       <<>>,
       <<>> >>

CoreAfter ==
    << <<" ", "wae", " ", "eo", "ryeo", "ul", "kka", "yo">>,
       <<" ", "sil", "cheon", " ", "tip", " ", "3", "ga", "ji">>,
       <<" ", "han", " ", "dal", " ", "byeon", "hwa", " ", "gi", "rok">>,
       <<" ", "ru", "tin">>,
       <<" ", "manh", "i_", " ", "ha", "myeon", " ", "o_", "hi", "ryeo", " ", "yeok", "hyo", "gwa", "?">>,
       <<"man", " ", "ba", "kkwo", "do", " ", "dal", "ra", "jyeo", "yo">> >>

TITLE_STYLES == <<"question", "numeric", "result", "target", "twist", "blank">>

\* str.startswith
startswith(s, p) == Len(p) <= Len(s) /\ SubSeq(s, 1, Len(p)) = p

\* s[:n]
Take(s, n) == SubSeq(s, 1, IF Len(s) < n THEN Len(s) ELSE n)

\* str.replace(old, new): left to right, occurrences do not overlap
\* where w occurs in s
Occurrences(s, w) ==
    {k \in 1..(Len(s) - Len(w) + 1) : SubSeq(s, k, k + Len(w) - 1) = w}

Least(S) == CHOOSE m \in S : \A n \in S : m <= n

RECURSIVE replace(_, _, _)
replace(s, old, new) ==
    IF Occurrences(s, old) = {} THEN s
    ELSE LET k == Least(Occurrences(s, old))
         IN  SubSeq(s, 1, k - 1) \o new
                 \o replace(SubSeq(s, k + Len(old), Len(s)), old, new)

\* re.sub(r"\s+", " ", t)
RECURSIVE collapse_ws(_)
collapse_ws(s) ==
    LET ws == {k \in 1..Len(s) : s[k] \in Whitespace}
    IN  IF ws = {} THEN s
        ELSE LET k == Least(ws)
             IN  SubSeq(s, 1, k - 1) \o <<" ">>
                     \o collapse_ws(lstrip(SubSeq(s, k, Len(s))))

\* the forbidden words are removed one after the other, in list order
RECURSIVE remove_words(_, _, _)
remove_words(t, words, k) ==
    IF k > Len(words) THEN t
    ELSE remove_words(replace(t, words[k], <<>>), words, k + 1)

sanitize_title(title) ==
    collapse_ws(remove_words(strip(title), FORBIDDEN_WORDS, 1))

\* a plausible slip: a short title is returned as it is
clip_title_len_nopad(title) == Take(title, TITLE_MAX)

clip_title_len(title) ==
    LET t == Take(title, TITLE_MAX)
    IN  IF Len(t) < TITLE_MIN
        THEN Take(t \o <<" ">> \o sClipPad, TITLE_MAX)
        ELSE t

\* f"[{cat1}/{cat2}] "
CategoryPrefix(cat1, cat2) == <<"[">> \o cat1 \o <<"/">> \o cat2 \o <<"]", " ">>

wrap_title_with_categories(title, cat1, cat2) ==
    LET prefix == CategoryPrefix(cat1, cat2)
        t == IF startswith(title, prefix) THEN title ELSE prefix \o title
    IN  clip_title_len(sanitize_title(t))

\* the defaults of _fit_len
DefaultMinLen == 22
DefaultMaxLen == 30

\* _fit_len
fit_len(s, min_len, max_len) ==
    IF Len(s) > max_len THEN rstrip(Take(s, max_len))
    ELSE IF Len(s) < min_len
         THEN LET fits == {k \in 1..Len(FitPads) : Len(s \o FitPads[k]) >= min_len}
              IN  IF fits = {} THEN s
                  ELSE LET k == CHOOSE m \in fits : \A n \in fits : m <= n
                       IN  Take(s \o FitPads[k], max_len)
         ELSE s

gen_title(group, sub, idx) ==
    LET style == (idx % Len(TITLE_STYLES)) + 1
        key == replace(sub, sManage, <<>>)
        core == CoreBefore[style] \o key \o CoreAfter[style]
    IN  fit_len(CategoryPrefix(group, sub) \o core, DefaultMinLen, DefaultMaxLen)

RECURSIVE Join(_)
Join(chunks) ==
    IF chunks = <<>> THEN <<>> ELSE Head(chunks) \o Join(Tail(chunks))

\* the raw titles the model answers with: a free part put together from a few
\* pieces (whole forbidden words and halves of them), with or without the
\* category prefix already in front, short or long
TitlePieces ==
    {<<" ">>, <<"x">>, <<"chung">>, <<"gyeok">>, <<"wan", "chi">>,
     <<"1", "0", "0", "%">>, <<"ye", "bang">>}

MaxIdx == 6
LongTail == 20

Filler(n) == [k \in 1..n |-> "x"]

RawTitles(cat1, cat2) ==
    { (IF pre THEN CategoryPrefix(cat1, cat2) ELSE <<>>) \o Join(free) \o Filler(n) :
        pre \in BOOLEAN,
        free \in UNION {[1..k -> TitlePieces] : k \in 0..MaxTitleLen},
        n \in {0, LongTail} }

TgIdle == [pc |-> "off", fn |-> "wrap", g |-> 1, s |-> 1, raw |-> <<>>,
           idx |-> 0, out |-> <<>>]

\* the title one call produces
TitleCall ==
    /\ tg.pc = "call"
    /\ LET cat1 == CatNames[tg.g]
           cat2 == SubNames[tg.g][tg.s]
       IN  tg' = [tg EXCEPT !.pc = "done",
                            !.out = IF tg.fn = "wrap"
                                    THEN wrap_title_with_categories(tg.raw, cat1, cat2)
                                    ELSE gen_title(cat1, cat2, tg.idx)]
    /\ UNCHANGED <<basis, cc, li, sd, nv, fb, bd>>

(***************************************************************************)
(* generate_post: the body and its disclaimer                              *)
(***************************************************************************)
\* the disclaimer of generate_post, 84 characters
disclaimer ==
    <<"i_", " ", "geul", "eun", " ", "il", "ban", "jeok", "in", " ", "geon",
      "gang", " ", "jeong", "bo", "reul", " ", "je", "gong", "ha", "gi",
      " ", "wi", "han", " ", "geos", "i_", "myeo", ",", " ", "ui", "ryo",
      "jeok", " ", "jin", "dan", "i_", "na", " ", "chi", "ryo", "reul", " ",
      "dae", "sin", "ha", "ji", " ", "anh", "seup", "ni", "da", ".", " ",
      "gae", "in", "byeol", " ", "sang", "tae", "e_", " ", "tta", "ra", " ",
      "jeon", "mun", "ga", " ", "sang", "dam", "i_", " ", "pil", "yo",
      "hal", " ", "su", " ", "iss", "seup", "ni", "da", ".">>

\* str.count: occurrences that do not overlap, left to right
RECURSIVE Count(_, _)
Count(s, w) ==
    IF Occurrences(s, w) = {} THEN 0
    ELSE 1 + Count(SubSeq(s, Least(Occurrences(s, w)) + Len(w), Len(s)), w)

\* extract_title_and_body: the first line is the title, the rest the body
extract_title_and_body(raw) ==
    LET r == strip(raw)
        nl == {k \in 1..Len(r) : r[k] = "\n"}
    IN  IF nl = {} THEN [title |-> strip(r), body |-> <<>>]
        ELSE LET k == CHOOSE m \in nl : \A n \in nl : m <= n
             IN  [title |-> strip(SubSeq(r, 1, k - 1)),
                  body |-> strip(SubSeq(r, k + 1, Len(r)))]

\* generate_post, "if disclaimer not in body: ..."
ensure_disclaimer(body) ==
    IF ~Contains(body, disclaimer)
    THEN rstrip(body) \o <<"\n", "\n">> \o disclaimer
    ELSE body

generate_post(cat1, cat2, text) ==
    LET tb == extract_title_and_body(text)
    IN  [title |-> wrap_title_with_categories(tb.title, cat1, cat2),
         body |-> ensure_disclaimer(tb.body)]

\* most pieces of a text the model returns
MaxChunks == 4

\* a cut-off copy of the disclaimer ends here
CutAt == 30

\* the pieces: plain text, line break, blank, the disclaimer, a cut-off copy
ChunkKinds == {<<"x">>, <<"\n">>, <<" ">>, disclaimer, Take(disclaimer, CutAt)}

\* what MODEL_FN(prompt) can return
ModelTexts ==
    {Join(c) : c \in UNION {[1..k -> ChunkKinds] : k \in 0..MaxChunks}}

BdIdle == [pc |-> "off", g |-> 1, s |-> 1, text |-> <<>>, title |-> <<>>,
           body |-> <<>>]

\* one call of generate_post
GeneratePost ==
    /\ bd.pc = "call"
    /\ LET post == generate_post(CatNames[bd.g], SubNames[bd.g][bd.s], bd.text)
       IN  bd' = [bd EXCEPT !.pc = "generated", !.title = post.title,
                            !.body = post.body]
    /\ UNCHANGED <<basis, cc, li, sd, nv, fb, tg>>

\* the generated body goes through the disclaimer insertion once more
InsertAgain ==
    /\ bd.pc = "generated"
    /\ bd' = [bd EXCEPT !.pc = "again", !.body = ensure_disclaimer(bd.body)]
    /\ UNCHANGED <<basis, cc, li, sd, nv, fb, tg>>


(***************************************************************************)
(* Two uploader processes at once (mall_auto_write.main, 466-512)          *)
(***************************************************************************)
Procs == {1, 2}

PIdle == [pc |-> "load", wb |-> <<>>, row |-> NoRow, seen |-> NoFile]

CcIdle == [file |-> NoFile, now |-> 0, p |-> [q \in Procs |-> PIdle],
           posts |-> <<>>]

\* a plausible slip in the other direction: the file is opened exclusively
\* for the length of a run
may_load_exclusive(c, q) ==
    \A r \in Procs \ {q} : c.p[r].pc \in {"load", "exit"}

\* load_next_row opens the workbook whatever other processes are doing: there
\* is no lock file and no exclusive open
may_load(c, q) == TRUE

\* load_next_row at the start of main; without a pending row main returns
CLoad(q) ==
    /\ cc.p[q].pc = "load"
    /\ may_load(cc, q)
    /\ LET r == load_next_row(cc.file.rows)
       IN  cc' = [cc EXCEPT !.p[q] =
                     [pc |-> IF r.row = NoRow THEN "exit" ELSE "prepare",
                      wb |-> cc.file.rows, row |-> r.row, seen |-> cc.file]]
    /\ UNCHANGED <<basis, li, sd, nv, fb, tg, bd>>

\* setup_driver, ensure_login, ensure_write_page, fill_title, fill_body: any
\* of them may raise, and main then leaves without mark_done
CPrepare(q) ==
    /\ cc.p[q].pc = "prepare"
    /\ \E ok \in BOOLEAN :
          cc' = [cc EXCEPT !.p[q].pc = IF ok THEN "submit" ELSE "exit"]
    /\ UNCHANGED <<basis, li, sd, nv, fb, tg, bd>>

\* submit_post: the post goes to the site
CSubmit(q) ==
    /\ cc.p[q].pc = "submit"
    /\ cc' = [cc EXCEPT !.p[q].pc = "mark",
                        !.posts = Append(@, cc.p[q].row)]
    /\ UNCHANGED <<basis, li, sd, nv, fb, tg, bd>>

\* mark_done: the workbook loaded at the start is changed and saved whole
CMark(q) ==
    /\ cc.p[q].pc = "mark"
    /\ \E d \in Elapsed :
          cc' = [cc EXCEPT !.now = @ + d,
                           !.file = [exists |-> TRUE,
                                     rows |-> mark_done(cc.p[q].wb, cc.p[q].row,
                                                        cc.now + d)],
                           !.p[q].pc = "exit"]
    /\ UNCHANGED <<basis, li, sd, nv, fb, tg, bd>>

(***************************************************************************)
(* Specifications                                                          *)
(***************************************************************************)
\* the kinds of row a queue file starts with: pending, done, skipped (lower
\* case, padded), empty, empty but marked done, and title without body
QueueRowSet ==
    {[title |-> <<"T">>, body |-> <<"B">>, status |-> <<>>, updated |-> 0],
     [title |-> <<"T">>, body |-> <<"B">>, status |-> sDONE, updated |-> 0],
     [title |-> <<"T">>, body |-> <<"B">>, status |-> <<" ", "s", "k", "i", "p">>,
      updated |-> 0],
     [title |-> <<>>, body |-> <<>>, status |-> <<>>, updated |-> 0],
     [title |-> <<>>, body |-> <<" ">>, status |-> sDONE, updated |-> 0],
     [title |-> <<"T">>, body |-> <<>>, status |-> <<>>, updated |-> 0]}


\* the sub-models a specification does not use stay off
AuxOff ==
    /\ li = LiIdle /\ sd = SdIdle /\ nv = NvIdle
    /\ fb = FbIdle /\ tg = TgIdle /\ bd = BdIdle
    /\ cc = CcIdle

CoreOff ==
    /\ file = NoFile /\ sample = FALSE /\ u = UIdle /\ o = OIdle
    /\ runs = 0 /\ clock = 0 /\ doneRows = {}
    /\ lq = LqIdle /\ lg = LgIdle /\ fs = FsIdle
    /\ cc = CcIdle

\* sequential use of the tools on one queue file
Init ==
    /\ file \in {NoFile} \cup
                {[exists |-> TRUE, rows |-> r] : r \in SheetsOf(QueueRowSet, MaxRows)}
    /\ sample = FALSE
    /\ u = UIdle
    /\ o = OIdle
    /\ runs = 0
    /\ clock = 0
    /\ doneRows = {}
    /\ lq = LqIdle
    /\ lg = LgIdle
    /\ fs = FsIdle
    /\ AuxOff

Next ==
    \/ StartUploader
    \/ USetup
    \/ ULogin
    \/ UNav
    \/ ULoad
    \/ UTitle
    \/ UBody
    \/ USubmit
    \/ UMark
    \/ RunGenerator
    \/ RunMakeSample
    \/ StartOrchestrator
    \/ OrchSample
    \/ OrchGenerate
    \/ OrchUpload
    \/ OrchReport

Spec == Init /\ [][Next]_vars

\* load_next_row applied to every sheet of the bounded set
InitLoad ==
    /\ lq \in {[pc |-> "input", rows |-> r, res |-> NoResult] :
                  r \in SheetsOf(LoadRowSet, MaxLoadRows)}
    /\ file = NoFile
    /\ sample = FALSE
    /\ u = UIdle
    /\ o = OIdle
    /\ runs = 0
    /\ clock = 0
    /\ doneRows = {}
    /\ lg = LgIdle
    /\ fs = FsIdle
    /\ AuxOff

NextLoad == LoadCall

SpecLoad == InitLoad /\ [][NextLoad]_vars

(***************************************************************************)
(* Properties of the uploader and the orchestrator (checked under Spec)    *)
(***************************************************************************)
Finished == u.pc = "exit"

\* C2: mark_done is executed only after the submission was confirmed as
\* accepted by the site; a rejected submission never leaves its row DONE.
C2_MarkedOnlyIfAccepted == u.marked => u.accepted

MandatoryFailures == {"login", "nav", "title", "body", "submit_missing", "alert"}

\* C3: a run that ends in a mandatory-step failure has not called mark_done,
\* leaves the queue file as it was when the run started, and the row it had
\* selected is the row load_next_row selects again.
C3_FailureLeavesQueue ==
    (Finished /\ u.fail \in MandatoryFailures) =>
        /\ ~u.marked
        /\ file = u.start
        /\ u.row # NoRow => file.exists /\ load_next_row(file.rows).row = u.row

C3_Witness ==
    /\ Finished
    /\ u.fail = "submit_missing"
    /\ u.row = 3
    /\ Cell(file.rows, 3).status = <<>>

\* C4: after mark_done on row r the file shows status DONE in row r, and the
\* title, body and status of the other rows and the title and body of r are
\* what they were.
C4_MarkDoneFrame ==
    (Finished /\ u.marked) =>
        /\ file.exists
        /\ Len(file.rows) = Len(u.start.rows)
        /\ \A i \in 2..max_row(file.rows) :
              /\ Cell(file.rows, i).title = Cell(u.start.rows, i).title
              /\ Cell(file.rows, i).body = Cell(u.start.rows, i).body
              /\ Cell(file.rows, i).status =
                    IF i = u.row THEN sDONE ELSE Cell(u.start.rows, i).status

C4_Witness ==
    /\ Finished
    /\ u.marked
    /\ u.row = 2
    /\ Len(file.rows) > 1
    /\ Cell(u.start.rows, 2).status # sDONE
    /\ Cell(file.rows, 3).status # sDONE

\* C5: a row that mark_done has been applied to is never again the row that
\* load_next_row returns for the file.
C5_DoneNeverReselected ==
    \A r \in doneRows : file.exists /\ load_next_row(file.rows).row # r

\* a later run, after a row was marked, finds nothing pending
C5_Witness ==
    /\ doneRows # {}
    /\ Finished
    /\ ~u.marked
    /\ ~u.noExcel
    /\ u.fail = "none"
    /\ u.row = NoRow

\* C6: exit status 0 when the post was submitted and marked or nothing was
\* pending; non-zero when the run ended in a login, navigation, fill or submit
\* failure.
C6_ExitStatus ==
    Finished =>
        /\ u.fail \in MandatoryFailures => u.exit # 0
        /\ u.fail = "none" => u.exit = 0

\* C7: the orchestrator reports a successful upload only if a pending row was
\* found, submitted and marked done in that invocation.
C7_SuccessOnlyIfUploaded ==
    o.report = "upload succeeded" =>
        u.row # NoRow /\ u.clicked /\ u.marked /\ u.fail = "none"

\* C8: when the queue file is absent at the start of the orchestrator, the
\* sample-creation step completes and the queue file exists afterwards.
C8_SampleCreatesQueue ==
    (o.missing /\ o.pc # "check") => (o.sampleExit = 0 /\ file.exists)

\* one call of ensure_login, for each variant and each environment
InitLogin ==
    /\ lg \in {[LgIdle EXCEPT !.pc = "check", !.variant = v, !.env = e] :
                  v \in {"auto", "mall"}, e \in SUBSET EnvNames}
    /\ file = NoFile
    /\ sample = FALSE
    /\ u = UIdle
    /\ o = OIdle
    /\ runs = 0
    /\ clock = 0
    /\ doneRows = {}
    /\ lq = LqIdle
    /\ fs = FsIdle
    /\ AuxOff

NextLogin ==
    \/ LoginCheck
    \/ LoginAutoEnter
    \/ LoginAutoUrl
    \/ LoginAutoHome
    \/ LoginAutoPoll
    \/ LoginManualNav
    \/ LoginManualWait

SpecLogin == InitLogin /\ [][NextLogin]_vars

\* every lookup on every page of at most MaxPage elements
InitFind ==
    /\ fs \in {[FsIdle EXCEPT !.pc = "input", !.fn = fn, !.page = p] :
                  fn \in Lookups, p \in SheetsOf(ElementKinds, MaxPage)}
    /\ file = NoFile
    /\ sample = FALSE
    /\ u = UIdle
    /\ o = OIdle
    /\ runs = 0
    /\ clock = 0
    /\ doneRows = {}
    /\ lq = LqIdle
    /\ lg = LgIdle
    /\ AuxOff

NextFind == FindCall

SpecFind == InitFind /\ [][NextFind]_vars


(***************************************************************************)
(* SpecLoggedIn: is_logged_in on every small page                          *)
(***************************************************************************)
InitLoggedIn ==
    /\ CoreOff
    /\ li \in { [pc |-> "call", variant |-> v, page |-> p, raises |-> r,
                 res |-> FALSE] :
                v \in {"auto", "mall"}, p \in HtmlPages, r \in BOOLEAN }
    /\ sd = SdIdle /\ nv = NvIdle /\ fb = FbIdle /\ tg = TgIdle /\ bd = BdIdle

NextLoggedIn == LoggedInCall

SpecLoggedIn == InitLoggedIn /\ [][NextLoggedIn]_vars

\* the page was read without an error of the driver
LiAnswered == li.pc = "done" /\ ~li.raises

\* C11: is_logged_in returns true for every page whose content contains
\* "로그아웃", wherever in the page the substring occurs.
C11_LogoutTextMeansLoggedIn ==
    (LiAnswered /\ Contains(page_source(li.page), sLogoutKo)) => li.res = TRUE

\* a write button of the page answers is_enabled() with true
HasEnabledWriteButton(page) ==
    \E k \in 1..Len(page) : WriteButton(page[k]) /\ page[k].enabled

\* C12 as stated: is_logged_in returns false for every page that contains
\* "로그인" and does not contain "로그아웃", whatever else the page contains.
C12_LoginTextMeansLoggedOut ==
    (LiAnswered /\ Contains(page_source(li.page), sLoginKo)
                /\ ~Contains(page_source(li.page), sLogoutKo))
        => li.res = FALSE

\* C12 amended: is_logged_in returns false for every page that contains
\* "로그인", does not contain "로그아웃", contains no "logout" in any letter
\* case, and has no enabled write button.
C12_LoggedOutWithoutOtherSigns ==
    (li.pc = "done" /\ Contains(page_source(li.page), sLoginKo)
                    /\ ~Contains(page_source(li.page), sLogoutKo)
                    /\ ~Contains(lower(page_source(li.page)), sLogoutLow)
                    /\ ~HasEnabledWriteButton(li.page))
        => li.res = FALSE

\* a login page with a disabled write button was judged
C12_Witness ==
    /\ LiAnswered /\ li.variant = "auto" /\ li.res = FALSE
    /\ Contains(page_source(li.page), sLoginKo)
    /\ \E k \in 1..Len(li.page) : WriteButton(li.page[k]) /\ ~li.page[k].enabled


(***************************************************************************)
(* SpecSetup: setup_driver under every outcome of the two launches         *)
(***************************************************************************)
InitSetup ==
    /\ CoreOff
    /\ sd \in { [pc |-> "primary", variant |-> v, userDir |-> ud,
                 profile |-> pf, fallbackEnv |-> fe, dir |-> "none",
                 dirExists |-> de, primary |-> "none", fallback |-> "none",
                 res |-> "none"] :
                v \in {"auto", "mall"}, ud \in BOOLEAN, pf \in BOOLEAN,
                fe \in BOOLEAN, de \in BOOLEAN }
    /\ li = LiIdle /\ nv = NvIdle /\ fb = FbIdle /\ tg = TgIdle /\ bd = BdIdle

NextSetup == SetupPrimary \/ SetupFallback

SpecSetup == InitSetup /\ [][NextSetup]_vars

PrimaryFailed == sd.primary \in {"unset", "webdriver", "other"}

FallbackTried == sd.fallback /= "none"

\* C13: a failed primary launch is not fatal and is followed by the fallback
\* attempt, which creates the directory; setup_driver raises only when the
\* fallback launch also failed and returns a session whenever either launch
\* succeeded.
C13_FallbackAfterAnyPrimaryFailure ==
    sd.pc = "done" =>
        /\ PrimaryFailed => FallbackTried
        /\ sd.res = "raised" => (FallbackTried /\ sd.fallback /= "ok")
        /\ (sd.primary = "ok" \/ sd.fallback = "ok") => sd.res = "session"
        /\ sd.fallback \in LaunchOutcomes => sd.dirExists


(***************************************************************************)
(* SpecNav: ensure_write_page as main calls it                             *)
(***************************************************************************)
InitNav ==
    /\ CoreOff
    /\ nv \in { [pc |-> IF v = "auto" THEN "direct" ELSE "check",
                 variant |-> v, listArg |-> la, bid |-> b, onWrite |-> ow,
                 k |-> 0, restarts |-> 0, trace |-> <<>>, direct |-> "none",
                 listing |-> "none", res |-> "none"] :
                v \in {"auto", "mall"}, la \in BOOLEAN, b \in BOOLEAN,
                ow \in BOOLEAN }
    /\ li = LiIdle /\ sd = SdIdle /\ fb = FbIdle /\ tg = TgIdle /\ bd = BdIdle

NextNav ==
    NavCheck \/ NavDirect \/ NavDirectRetry \/ NavListOpen \/ NavCandidate

SpecNav == InitNav /\ [][NextNav]_vars

\* C14: the direct form URL is loaded first; the listing page is loaded only
\* after a direct load that did not show the form, never before it.
C14_DirectBeforeListing ==
    \A i \in 1..Len(nv.trace) :
        nv.trace[i] = "listing" =>
            /\ \E j \in 1..(i - 1) : nv.trace[j] = "direct"
            /\ nv.direct = "failed"

\* C15: the 'form unreachable' error is raised only after the direct-URL
\* strategy and the listing-page strategy were both attempted and both failed
\* in the call, whatever the command-line arguments were.
C15_UnreachableAfterBothStrategies ==
    nv.res = "unreachable" =>
        /\ "direct" \in Range(nv.trace) /\ nv.direct = "failed"
        /\ "listing" \in Range(nv.trace) /\ nv.listing = "failed"


(***************************************************************************)
(* SpecBody: body filling on every small page                              *)
(***************************************************************************)
BodyStart(fn) ==
    CASE fn = "fill_body" -> "textarea"
      [] fn = "auto_body" -> "find"
      [] fn = "debug_iframes" -> "frame_enter"

InitBody ==
    /\ CoreOff
    /\ fb \in { [pc |-> BodyStart(f), fn |-> f, ta |-> t, ed |-> e,
                 se2 |-> s2, frames |-> n,
                 idx |-> IF f = "debug_iframes" THEN 1 ELSE 0, ctx |-> "top",
                 tried |-> <<>>, wrote |-> "none", res |-> "none"] :
                f \in {"fill_body", "auto_body", "debug_iframes"},
                t \in BOOLEAN, e \in BOOLEAN, s2 \in BOOLEAN,
                n \in 0..MaxFrames }
    /\ li = LiIdle /\ sd = SdIdle /\ nv = NvIdle /\ tg = TgIdle /\ bd = BdIdle

NextBody ==
    BodyFind \/ BodyTextarea \/ BodyEditable \/ BodyFrameEnter \/ BodyInFrame

SpecBody == InitBody /\ [][NextBody]_vars

\* C16: whenever fill_body, the body block of auto_write.main or
\* debug_iframes returns or raises, the session is in the top-level context,
\* and it is inside a frame only between the switch and its restore.
C16_FrameAlwaysRestored ==
    /\ fb.pc = "done" => fb.ctx = "top"
    /\ fb.ctx = "frame" => fb.pc = "in_frame"

\* an operation that had switched into a frame failed there and was left
C16_Witness ==
    /\ fb.pc = "done" /\ fb.res = "raised" /\ fb.ctx = "top"
    /\ fb.fn = "auto_body" /\ fb.tried = <<"iframe">>

TierOrder == <<"textarea", "editable", "iframe">>

TierIndex(t) == CHOOSE k \in 1..3 : TierOrder[k] = t

\* C17: the tiers are tried in the order text area, content-editable region,
\* inline frame; a tier is attempted only if the element of every earlier
\* tier is absent, so with a text area present nothing else is injected even
\* if writing to it fails; with all three absent an error is raised.
C17_TierOnlyIfPreviousAbsent ==
    fb.fn \in {"fill_body", "auto_body"} =>
        /\ \A i, j \in 1..Len(fb.tried) :
               i < j => TierIndex(fb.tried[i]) < TierIndex(fb.tried[j])
        /\ "editable" \in Range(fb.tried) => ~fb.ta
        /\ "iframe" \in Range(fb.tried) => (~fb.ta /\ ~fb.ed)
        /\ (fb.pc = "done" /\ ~fb.ta /\ ~fb.ed /\ ~fb.se2 /\ fb.frames = 0)
               => fb.res = "raised"


(***************************************************************************)
(* SpecTitle: both title generators on every category pair                 *)
(***************************************************************************)
CategoryPairs == {<<g, s>> : g \in 1..Len(CATEGORIES), s \in 1..5} \cap
                 {p \in (1..3) \X (1..5) : p[2] <= CATEGORIES[p[1]]}

InitTitle ==
    /\ CoreOff
    /\ \E p \in CategoryPairs :
          \/ \E r \in RawTitles(CatNames[p[1]], SubNames[p[1]][p[2]]) :
                tg = [pc |-> "call", fn |-> "wrap", g |-> p[1], s |-> p[2],
                      raw |-> r, idx |-> 0, out |-> <<>>]
          \/ \E i \in 0..MaxIdx :
                tg = [pc |-> "call", fn |-> "gen", g |-> p[1], s |-> p[2],
                      raw |-> <<>>, idx |-> i, out |-> <<>>]
    /\ li = LiIdle /\ sd = SdIdle /\ nv = NvIdle /\ fb = FbIdle /\ bd = BdIdle

NextTitle == TitleCall

SpecTitle == InitTitle /\ [][NextTitle]_vars

\* C19: for every category pair and every raw title, the title that
\* wrap_title_with_categories returns, and the one gen_title returns for
\* every index, starts with "[cat1/cat2] " and is 22 to 30 characters long.
C19_PrefixAndLength ==
    tg.pc = "done" =>
        /\ startswith(tg.out, CategoryPrefix(CatNames[tg.g], SubNames[tg.g][tg.s]))
        /\ Len(tg.out) >= 22 /\ Len(tg.out) <= 30

\* a raw title that is only a forbidden word was padded up to the range
C19_Witness ==
    /\ tg.pc = "done" /\ tg.fn = "wrap"
    /\ tg.raw = <<"chung", "gyeok">>
    /\ Len(tg.out) >= 22

\* C25: for every raw title, the title wrap_title_with_categories returns
\* contains none of the forbidden expressions "100% yebang", "chunggyeok",
\* "wanchi", also when a removal or the collapsing of whitespace brings one
\* together.
C25_NoForbiddenWordInTitle ==
    (tg.pc = "done" /\ tg.fn = "wrap") =>
        \A k \in 1..Len(FORBIDDEN_WORDS) : ~Contains(tg.out, FORBIDDEN_WORDS[k])


(***************************************************************************)
(* SpecPost: generate_post on every small model text                       *)
(***************************************************************************)
\* the pairs generate_post is run for
PostPairs == {<<1, 1>>, <<3, 2>>}

InitPost ==
    /\ CoreOff
    /\ bd \in { [pc |-> "call", g |-> p[1], s |-> p[2], text |-> t,
                 title |-> <<>>, body |-> <<>>] :
                p \in PostPairs, t \in ModelTexts }
    /\ li = LiIdle /\ sd = SdIdle /\ nv = NvIdle /\ fb = FbIdle /\ tg = TgIdle

NextPost == GeneratePost \/ InsertAgain

SpecPost == InitPost /\ [][NextPost]_vars

\* C20: the body generate_post returns contains the disclaimer exactly once,
\* whatever text the model returned, and still exactly once after a second
\* pass through the disclaimer insertion.
C20_DisclaimerExactlyOnce ==
    bd.pc \in {"generated", "again"} => Count(bd.body, disclaimer) = 1

\* the part of C20 the code does keep: a second pass changes nothing, and the
\* disclaimer is present at least once
PostInsertionIdempotent ==
    bd.pc \in {"generated", "again"} =>
        /\ ensure_disclaimer(bd.body) = bd.body
        /\ Count(bd.body, disclaimer) >= 1


(***************************************************************************)
(* The timestamp of mark_done (checked under Spec)                         *)
(***************************************************************************)
\* the instant a written timestamp denotes: the first second of its minute
Denotes(stamp) == stamp * SecondsPerMinute

\* the run has just marked its row; clock is still the moment of the call
JustMarked == Finished /\ u.marked /\ file.exists

\* C21 as stated: the timestamp mark_done writes denotes a point in time no
\* earlier than the moment mark_done was invoked.
C21_StampNotBeforeCall ==
    JustMarked => Denotes(Cell(file.rows, u.row).updated) >= clock

\* C21 amended: the timestamp is the minute in which mark_done was invoked:
\* it denotes the start of that minute, at most 59 seconds before the call.
C21_StampIsMinuteOfCall ==
    JustMarked =>
        /\ Denotes(Cell(file.rows, u.row).updated) <= clock
        /\ clock < Denotes(Cell(file.rows, u.row).updated + 1)

\* a row marked in the second minute, 10 seconds after the minute began
C21_Witness ==
    /\ JustMarked
    /\ Cell(file.rows, u.row).updated = 1
    /\ clock > Denotes(1)


(***************************************************************************)
(* The generator under --only-empty, as run_post starts it                 *)
(***************************************************************************)
\* row i of the sheet has neither title nor body
EmptyRow(rows, i) ==
    strip(Cell(rows, i).title) = <<>> /\ strip(Cell(rows, i).body) = <<>>

\* the orchestrator's generator step has run and saved the file
GeneratorSaved == o.pc = "gen" /\ o'.pc = "upload"

\* C22: run with --only-empty, the generator writes only into rows that exist
\* and whose title and body are both empty; when there is none it adds no
\* row and leaves the sheet as it was.
C22_OnlyEmptyRowsWritten ==
    [][GeneratorSaved =>
          /\ Len(file'.rows) = Len(file.rows)
          /\ \A i \in 2..max_row(file.rows) :
                Cell(file'.rows, i) # Cell(file.rows, i) => EmptyRow(file.rows, i)]_vars


(***************************************************************************)
(* SpecNavFair: ensure_write_page keeps running until it returns or raises *)
(***************************************************************************)
SpecNavFair == InitNav /\ [][NextNav]_vars /\ WF_vars(NextNav)

\* C23: goto_write_from_list of mall_auto_write always terminates: when the
\* alert recurs on every click, the re-login and retry is repeated a bounded
\* number of times only, and the navigation then returns or raises.
C23_NavigationTerminates == <>(nv.pc = "done")


(***************************************************************************)
(* SpecConc: two uploaders started on the same queue file                  *)
(***************************************************************************)
InitConc ==
    /\ file = NoFile /\ sample = FALSE /\ u = UIdle /\ o = OIdle
    /\ runs = 0 /\ clock = 0 /\ doneRows = {}
    /\ lq = LqIdle /\ lg = LgIdle /\ fs = FsIdle
    /\ li = LiIdle /\ sd = SdIdle /\ nv = NvIdle
    /\ fb = FbIdle /\ tg = TgIdle /\ bd = BdIdle
    /\ \E r \in SheetsOf(QueueRowSet, MaxRows) :
          cc = [CcIdle EXCEPT !.file = [exists |-> TRUE, rows |-> r]]

NextConc == \E q \in Procs : CLoad(q) \/ CPrepare(q) \/ CSubmit(q) \/ CMark(q)

SpecConc == InitConc /\ [][NextConc]_vars

\* process q holds a row it selected and has not yet marked
InFlight(q) == cc.p[q].pc \in {"prepare", "submit", "mark"}

\* C24: nothing keeps overlapping uploaders apart: a process about to load is
\* never held back by another one's run, and two processes that loaded the
\* same file content hold the same row, so that row can be submitted twice.
C24_NoMutualExclusion ==
    /\ \A q \in Procs : cc.p[q].pc = "load" => ENABLED CLoad(q)
    /\ \A q, r \in Procs :
          (InFlight(q) /\ InFlight(r) /\ cc.p[q].seen = cc.p[r].seen)
              => cc.p[q].row = cc.p[r].row

\* both processes loaded before either marked, and row 2 was posted twice
C24_Witness ==
    /\ cc.posts = <<2, 2>>
    /\ \A q \in Procs : cc.p[q].row = 2 /\ cc.p[q].seen = cc.p[1].seen
    /\ \E q \in Procs : cc.p[q].pc = "mark"


\* C26: a row whose status is DONE, PUBLISHED or SKIP keeps its status, title
\* and body through every step of every run of the uploader and of the
\* generator, with or without --only-empty.
C26_TerminalAbsorbing ==
    [][file.exists =>
          \A i \in 2..max_row(file.rows) :
              ~NonTerminal(file.rows, i) =>
                  /\ file'.exists /\ i <= max_row(file'.rows)
                  /\ Cell(file'.rows, i).status = Cell(file.rows, i).status
                  /\ Cell(file'.rows, i).title = Cell(file.rows, i).title
                  /\ Cell(file'.rows, i).body = Cell(file.rows, i).body]_vars

====
